---------------------------- MODULE Spec2Model ----------------------------
(***************************************************************************)
(* A model of rayTracing.js: the vector algebra, Sphere.rayIntersects,     *)
(* traceRay, rayColor and the render loop.                                 *)
(*                                                                         *)
(* JavaScript Numbers are IEEE-754 doubles: every operation yields the     *)
(* representable value nearest to the exact result.  The model keeps that  *)
(* shape with a binary fixed-point Number of FracBits fractional bits: a   *)
(* Number n stands for n / One, and every multiplication, division and     *)
(* square root is rounded to the nearest Number.  Additions and            *)
(* subtractions of Numbers are exact in the model.                         *)
(***************************************************************************)
EXTENDS Integers, Sequences, FiniteSets, TLC

\* ------------------------------------------------------------------------
\* Number: rounded arithmetic
\* ------------------------------------------------------------------------

\* Precision of the Number type (fractional bits).
FracBits == 8

One == 2 ^ FracBits

\* A value above every Number the model computes: `let t = Infinity`.
Infinity == 2 ^ 30

Abs(n) == IF n < 0 THEN -n ELSE n

Sign(n) == IF n < 0 THEN -1 ELSE 1

\* n / d rounded to the nearest integer, halves away from zero (d # 0).
Rnd(n, d) == Sign(n) * Sign(d) * ((2 * Abs(n) + Abs(d)) \div (2 * Abs(d)))

\* The Number of an integer literal, and of a decimal literal num/den.
Num(k) == k * One

Fix(num, den) == Rnd(num * One, den)

\* a * b
Mul(a, b) == Rnd(a * b, One)

\* a / b
Div(a, b) == Rnd(a * One, b)

RECURSIVE ISqrt(_, _, _)
\* The integer s with lo <= s < hi and s*s <= n < (s+1)*(s+1).
ISqrt(n, lo, hi) ==
    IF hi - lo <= 1 THEN lo
    ELSE LET mid == (lo + hi) \div 2
         IN  IF mid * mid <= n THEN ISqrt(n, mid, hi) ELSE ISqrt(n, lo, mid)

\* Math.sqrt(a), a >= 0, rounded to the nearest Number.
Sqrt(a) ==
    LET n == a * One
        s == ISqrt(n, 0, 46341)
    IN  IF n - s * s > s THEN s + 1 ELSE s

\* Math.min, Math.max
Min(a, b) == IF a < b THEN a ELSE b

Max(a, b) == IF a > b THEN a ELSE b

\* ------------------------------------------------------------------------
\* class Vec3
\* ------------------------------------------------------------------------

Vec3(x, y, z) == [x |-> x, y |-> y, z |-> z]

scale(v, scalar) == Vec3(Mul(v.x, scalar), Mul(v.y, scalar), Mul(v.z, scalar))

dot(v, other) == Mul(v.x, other.x) + Mul(v.y, other.y) + Mul(v.z, other.z)

normalised(v) ==
    LET length == Sqrt(Mul(v.x, v.x) + Mul(v.y, v.y) + Mul(v.z, v.z))
    IN  Vec3(Div(v.x, length), Div(v.y, length), Div(v.z, length))

subtract(v, other) == Vec3(v.x - other.x, v.y - other.y, v.z - other.z)

add(v, other) == Vec3(v.x + other.x, v.y + other.y, v.z + other.z)

\* ------------------------------------------------------------------------
\* class Ray
\* ------------------------------------------------------------------------

Ray(origin, direction) == [origin |-> origin, direction |-> direction]

pointAt(r, t) ==
    Vec3(r.origin.x + Mul(t, r.direction.x),
         r.origin.y + Mul(t, r.direction.y),
         r.origin.z + Mul(t, r.direction.z))

\* ------------------------------------------------------------------------
\* class Sphere
\* ------------------------------------------------------------------------

Sphere(center, radius, color) ==
    [center |-> center, radius |-> radius, color |-> color]

\* The coefficients of the quadratic of rayIntersects, and its discriminant.
QuadA(sphere, r) == dot(r.direction, r.direction)

QuadB(sphere, r) == Mul(Num(2), dot(subtract(r.origin, sphere.center), r.direction))

QuadC(sphere, r) ==
    LET oc == subtract(r.origin, sphere.center)
    IN  dot(oc, oc) - Mul(sphere.radius, sphere.radius)

Discriminant(sphere, r) ==
    Mul(QuadB(sphere, r), QuadB(sphere, r))
        - Mul(Mul(Num(4), QuadA(sphere, r)), QuadC(sphere, r))

\* The mutation of rayIntersects that returns the far root.
rayIntersectsFarRoot(sphere, r) ==
    LET a == QuadA(sphere, r)
        b == QuadB(sphere, r)
        discriminant == Discriminant(sphere, r)
    IN  IF discriminant > 0
        THEN LET t1 == Div(-b - Sqrt(discriminant), Mul(Num(2), a))
                 t2 == Div(-b + Sqrt(discriminant), Mul(Num(2), a))
             IN  Max(t1, t2)
        ELSE -One

\* The mutation of rayIntersects that returns the far root when the near one
\* is behind the origin.
rayIntersectsInFront(sphere, r) ==
    LET a == QuadA(sphere, r)
        b == QuadB(sphere, r)
        discriminant == Discriminant(sphere, r)
    IN  IF discriminant > 0
        THEN LET t1 == Div(-b - Sqrt(discriminant), Mul(Num(2), a))
                 t2 == Div(-b + Sqrt(discriminant), Mul(Num(2), a))
             IN  IF Min(t1, t2) > 0 THEN Min(t1, t2) ELSE Max(t1, t2)
        ELSE -One

\* The mutation of rayIntersects that also solves the tangent case.
rayIntersectsTangent(sphere, r) ==
    LET a == QuadA(sphere, r)
        b == QuadB(sphere, r)
        discriminant == Discriminant(sphere, r)
    IN  IF discriminant >= 0
        THEN LET t1 == Div(-b - Sqrt(discriminant), Mul(Num(2), a))
                 t2 == Div(-b + Sqrt(discriminant), Mul(Num(2), a))
             IN  Min(t1, t2)
        ELSE -One

rayIntersects(sphere, r) ==
    LET a == QuadA(sphere, r)
        b == QuadB(sphere, r)
        discriminant == Discriminant(sphere, r)
    IN  IF discriminant > 0
        THEN LET t1 == Div(-b - Sqrt(discriminant), Mul(Num(2), a))
                 t2 == Div(-b + Sqrt(discriminant), Mul(Num(2), a))
             IN  Min(t1, t2)
        ELSE -One

\* ------------------------------------------------------------------------
\* traceRay
\* ------------------------------------------------------------------------

\* `let closestNormal = null`
null == [null |-> TRUE]

\* spheres.length, for a scene indexed from 0
Length(scene) == Cardinality(DOMAIN scene)

\* The mutation of Closer in which the later of two equal hits wins.
CloserOrEqual(tIntersection, t) == tIntersection > 0 /\ tIntersection <= t

\* The mutation of Closer that accepts a hit at distance 0.
CloserFromZero(tIntersection, t) == tIntersection >= 0 /\ tIntersection < t

\* The condition of the if in traceRay's loop.
Closer(tIntersection, t) == tIntersection > 0 /\ tIntersection < t

RECURSIVE traceLoop(_, _, _, _)
\* The for loop of traceRay from index i on; acc holds t, closestSphereIndex
\* and closestNormal.
traceLoop(r, scene, i, acc) ==
    IF ~(i < Length(scene)) THEN acc
    ELSE LET sphere == scene[i]
             tIntersection == rayIntersects(sphere, r)
         IN  IF Closer(tIntersection, acc.t)
             THEN LET hitPoint == pointAt(r, tIntersection)
                      normal == normalised(subtract(hitPoint, sphere.center))
                  IN  traceLoop(r, scene, i + 1,
                                [t |-> tIntersection,
                                 closestSphereIndex |-> i,
                                 closestNormal |-> normal])
             ELSE traceLoop(r, scene, i + 1, acc)

traceRay(r, scene) ==
    LET acc == traceLoop(r, scene, 0,
                         [t |-> Infinity, closestSphereIndex |-> -1,
                          closestNormal |-> null])
    IN  IF acc.closestSphereIndex < 0
        THEN [t |-> -One]
        ELSE [t |-> acc.t,
              sphereIndex |-> acc.closestSphereIndex,
              normal |-> acc.closestNormal]

\* ------------------------------------------------------------------------
\* The scene: spheres, lightDirection, negLightDirection
\* ------------------------------------------------------------------------

SceneSpheres ==
    [i \in 0..2 |->
        CASE i = 0 -> Sphere(Vec3(0, Fix(3, 10), Fix(-35, 10)), Num(1),
                             Vec3(Num(1), 0, 0))
          [] i = 1 -> Sphere(Vec3(0, Num(1), Fix(-28, 10)), Fix(5, 10),
                             Vec3(0, 0, Num(1)))
          [] i = 2 -> Sphere(Vec3(0, Num(-14), Num(-5)), Num(13),
                             Vec3(Fix(58, 255), Fix(240, 255), Fix(46, 255)))]

SceneLightDirection == normalised(Vec3(Fix(-11, 10), Fix(-13, 10), Fix(-15, 10)))

SceneNegLightDirection ==
    Vec3(-SceneLightDirection.x, -SceneLightDirection.y, -SceneLightDirection.z)

\* ------------------------------------------------------------------------
\* backgroundColour
\* ------------------------------------------------------------------------

\* Math.PI
PI == Rnd(205887 * One, 65536)

\* Math.acos at the points -1, -15/16, ..., 15/16, 1, in units of 2^-16.
AcosTable ==
    << 205887, 182595, 172768, 165100, 158522, 152623, 147189, 142095,
       137258, 132619, 128136, 123773, 119503, 115305, 111157, 107042,
       102944, 98845, 94730, 90583, 86384, 82115, 77752, 73268, 68629,
       63792, 58698, 53265, 47365, 40788, 33119, 23293, 0 >>

\* Math.acos(c) for -1 <= c <= 1, rounded to the nearest Number: the table,
\* interpolated linearly between its points.
Acos(c) ==
    LET step == One \div 16
        k == (c + One) \div step
        rem == (c + One) % step
        fine == IF rem = 0 THEN AcosTable[k + 1]
                ELSE Rnd(AcosTable[k + 1] * (step - rem) + AcosTable[k + 2] * rem,
                         step)
    IN  Rnd(fine * One, 65536)

\* phi and u are computed by the code and never used.
backgroundColour(r) ==
    LET dir == normalised(r.direction)
        theta == Acos(dir.y)
        v == Div(theta, PI)
        skyColor == Vec3(Fix(5, 10), Fix(9, 10), Num(1))
        groundColor == Vec3(Fix(3, 10), Fix(3, 10), Fix(5, 10))
    IN  add(scale(skyColor, Num(1) - v), scale(groundColor, v))

\* ------------------------------------------------------------------------
\* diffuseLighting, specularLighting
\* ------------------------------------------------------------------------

diffuseLighting(normal, negLight) == Max(dot(normal, negLight), 0)

RECURSIVE Pow(_, _)
\* Math.pow(base, n) for an integer n >= 1, by repeated multiplication.
Pow(base, n) == IF n = 1 THEN base ELSE Mul(Pow(base, n - 1), base)

specularLighting(normal, viewDirection, light) ==
    LET reflection == subtract(scale(normal, Mul(Num(2), dot(normal, light))), light)
        specular == Max(dot(reflection, viewDirection), 0)
    IN  Mul(Pow(specular, 7), Fix(8, 10))

\* ------------------------------------------------------------------------
\* rayColor, statement by statement
\* ------------------------------------------------------------------------

\* Lines 102-108: albedo * diffuse + albedo * specular.
litColor(r, castResult, scene, light, negLight) ==
    LET albedo == scene[castResult.sphereIndex].color
        diffuse == diffuseLighting(castResult.normal, negLight)
        viewDirection ==
            normalised(subtract(r.origin, pointAt(r, castResult.t)))
        specular == specularLighting(castResult.normal, viewDirection, light)
    IN  add(scale(albedo, diffuse), scale(albedo, specular))

\* Line 110: the ray from the biased hit point towards the light.
shadowRay(r, castResult, negLight) ==
    Ray(add(pointAt(r, castResult.t), scale(castResult.normal, Fix(1, 100))),
        negLight)

\* The mutation of shadowed that attenuates whatever the shadow ray found.
shadowedAlways(color, shadowCastResult) == scale(color, Fix(4, 10))

\* Lines 112-114.
shadowed(color, shadowCastResult) ==
    IF shadowCastResult.t > 0 THEN scale(color, Fix(4, 10)) ELSE color

\* Lines 116-118.
boosted(color, castResult) ==
    IF castResult.sphereIndex = 2 THEN scale(color, Fix(12, 10)) ELSE color

rayColor(r, scene, light, negLight) ==
    LET castResult == traceRay(r, scene)
    IN  IF castResult.t < 0 THEN backgroundColour(r)
        ELSE LET color == litColor(r, castResult, scene, light, negLight)
                 shadowCastResult ==
                     traceRay(shadowRay(r, castResult, negLight), scene)
             IN  boosted(shadowed(color, shadowCastResult), castResult)

\* ------------------------------------------------------------------------
\* render: the camera ray and the pixel of one iteration
\* ------------------------------------------------------------------------

viewportWidth == 2

viewportHeight == 2

focalLength == 1

\* Lines 161-164.
CameraRay(px, py, w, h) ==
    LET u == Mul(Div(Num(px), Num(w)), Num(viewportWidth))
                 - Div(Num(viewportWidth), Num(2))
        v == Mul(Div(Num(py), Num(h)), Num(viewportHeight))
                 - Div(Num(viewportHeight), Num(2))
        direction == normalised(Vec3(u, -v, -Num(focalLength)))
    IN  Ray(Vec3(0, 0, 0), direction)

\* Lines 166-168: one channel of the fill style.
Channel(c) == Mul(Min(Num(1), Max(0, c)), Num(255))

\* Lines 166-170: what fillRect receives.
Pixel(px, py, color) ==
    [x |-> px, y |-> py,
     r |-> Channel(color.x), g |-> Channel(color.y), b |-> Channel(color.z)]

\* ------------------------------------------------------------------------
\* State
\* ------------------------------------------------------------------------

VARIABLES
    spheres,            \* the scene: index -> Sphere
    lightDirection,
    negLightDirection,
    width,              \* canvas.width
    height,             \* canvas.height
    pc,                 \* evaluator -> its position in the code
    x,                  \* evaluator -> column of the pixel it works on
    y,                  \* evaluator -> row of the pixel it works on
    ray,                \* evaluator -> the ray of rayColor / traceRay
    castResult,         \* evaluator -> result of the first traceRay
    shadowCastResult,   \* evaluator -> result of the shadow traceRay
    color,              \* evaluator -> rayColor's color so far
    delivered,          \* the fillRect calls made, in order
    sphereArg,          \* index of the sphere rayIntersects was called on
    tIntersection       \* the value rayIntersects returned

scene == <<spheres, lightDirection, negLightDirection>>

canvas == <<width, height>>

shading == <<ray, castResult, shadowCastResult, color>>

probe == <<sphereArg, tIntersection>>

vars == <<spheres, lightDirection, negLightDirection, width, height, pc, x, y,
          ray, castResult, shadowCastResult, color, delivered, sphereArg,
          tIntersection>>

\* A variable that holds nothing yet.
none == [none |-> TRUE]

\* ------------------------------------------------------------------------
\* Bounds
\* ------------------------------------------------------------------------

\* Largest canvas width and height of the sequential render.
MaxDim == 7

\* Evaluators of the order-free rendering.
NumWorkers == 2

\* Longest scene handed to traceRay on its own.
MaxSpheres == 2

\* ------------------------------------------------------------------------
\* render, on the main thread (evaluator 0)
\* ------------------------------------------------------------------------

InitScene ==
    /\ spheres = SceneSpheres
    /\ lightDirection = SceneLightDirection
    /\ negLightDirection = SceneNegLightDirection

InitEvaluators(ws, at) ==
    /\ pc = [w \in ws |-> at]
    /\ x = [w \in ws |-> 0]
    /\ y = [w \in ws |-> 0]
    /\ ray = [w \in ws |-> none]
    /\ castResult = [w \in ws |-> none]
    /\ shadowCastResult = [w \in ws |-> none]
    /\ color = [w \in ws |-> none]
    /\ sphereArg = -1
    /\ tIntersection = none

Init ==
    /\ InitScene
    /\ width \in -1..MaxDim
    /\ height \in -1..MaxDim
    /\ InitEvaluators({0}, "start")
    /\ delivered = <<>>

\* The mutation of LoopTest that stops only on reaching the limit.
LoopTestNotEqual(i, limit) == i # limit

\* `y < height`, `x < width`
LoopTest(i, limit) == i < limit

\* Lines 150-159: read the canvas, enter the outer loop.
RenderBegin ==
    /\ pc[0] = "start"
    /\ pc' = [pc EXCEPT ![0] = "loop"]
    /\ x' = [x EXCEPT ![0] = 0]
    /\ y' = [y EXCEPT ![0] = 0]
    /\ UNCHANGED <<scene, canvas, shading, delivered, probe>>

\* Lines 159-164: both loop tests pass; build the camera ray.
NextPixel ==
    /\ pc[0] = "loop"
    /\ LoopTest(y[0], height)
    /\ LoopTest(x[0], width)
    /\ ray' = [ray EXCEPT ![0] = CameraRay(x[0], y[0], width, height)]
    /\ pc' = [pc EXCEPT ![0] = "rayColor"]
    /\ UNCHANGED <<scene, canvas, x, y, castResult, shadowCastResult, color,
                   delivered, probe>>

\* The mutation of NextRow that does not start the next row at column 0.
NextRowNoReset ==
    /\ pc[0] = "loop"
    /\ LoopTest(y[0], height)
    /\ ~LoopTest(x[0], width)
    /\ y' = [y EXCEPT ![0] = y[0] + 1]
    /\ UNCHANGED <<scene, canvas, pc, x, shading, delivered, probe>>

\* Lines 159-160: the inner loop is over; y++ and x = 0.
NextRow ==
    /\ pc[0] = "loop"
    /\ LoopTest(y[0], height)
    /\ ~LoopTest(x[0], width)
    /\ y' = [y EXCEPT ![0] = y[0] + 1]
    /\ x' = [x EXCEPT ![0] = 0]
    /\ UNCHANGED <<scene, canvas, pc, shading, delivered, probe>>

\* Line 159, 173: the outer loop is over; render returns.
RenderEnd ==
    /\ pc[0] = "loop"
    /\ ~LoopTest(y[0], height)
    /\ pc' = [pc EXCEPT ![0] = "done"]
    /\ UNCHANGED <<scene, canvas, x, y, shading, delivered, probe>>

\* ------------------------------------------------------------------------
\* rayColor, run by evaluator w
\* ------------------------------------------------------------------------

\* The mutation of ShadePrimary that scales the albedo of the hit sphere in
\* place instead of building a new vector.
ShadePrimaryInPlace(w) ==
    /\ pc[w] = "rayColor"
    /\ LET result == traceRay(ray[w], spheres)
       IN  /\ castResult' = [castResult EXCEPT ![w] = result]
           /\ IF result.t < 0
              THEN /\ color' = [color EXCEPT ![w] = backgroundColour(ray[w])]
                   /\ pc' = [pc EXCEPT ![w] = "deliver"]
                   /\ spheres' = spheres
              ELSE /\ color' = [color EXCEPT ![w] =
                          litColor(ray[w], result, spheres, lightDirection,
                                   negLightDirection)]
                   /\ pc' = [pc EXCEPT ![w] = "shadow"]
                   /\ spheres' = [spheres EXCEPT ![result.sphereIndex].color =
                          litColor(ray[w], result, spheres, lightDirection,
                                   negLightDirection)]
    /\ shadowCastResult' = [shadowCastResult EXCEPT ![w] = none]
    /\ UNCHANGED <<lightDirection, negLightDirection, canvas, x, y, ray,
                   delivered, probe>>

\* Lines 99-108: trace the ray; the background on a miss, else the lit color.
ShadePrimary(w) ==
    /\ pc[w] = "rayColor"
    /\ LET result == traceRay(ray[w], spheres)
       IN  /\ castResult' = [castResult EXCEPT ![w] = result]
           /\ IF result.t < 0
              THEN /\ color' = [color EXCEPT ![w] = backgroundColour(ray[w])]
                   /\ pc' = [pc EXCEPT ![w] = "deliver"]
              ELSE /\ color' = [color EXCEPT ![w] =
                          litColor(ray[w], result, spheres, lightDirection,
                                   negLightDirection)]
                   /\ pc' = [pc EXCEPT ![w] = "shadow"]
    /\ shadowCastResult' = [shadowCastResult EXCEPT ![w] = none]
    /\ UNCHANGED <<scene, canvas, x, y, ray, delivered, probe>>

\* Lines 110-114: the shadow ray and the 0.4 attenuation.
ShadeShadow(w) ==
    /\ pc[w] = "shadow"
    /\ LET result == traceRay(shadowRay(ray[w], castResult[w], negLightDirection),
                              spheres)
       IN  /\ shadowCastResult' = [shadowCastResult EXCEPT ![w] = result]
           /\ color' = [color EXCEPT ![w] = shadowed(color[w], result)]
    /\ pc' = [pc EXCEPT ![w] = "boost"]
    /\ UNCHANGED <<scene, canvas, x, y, ray, castResult, delivered, probe>>

\* Lines 116-120: the 1.2 boost of sphere 2; rayColor returns.
ShadeBoost(w) ==
    /\ pc[w] = "boost"
    /\ color' = [color EXCEPT ![w] = boosted(color[w], castResult[w])]
    /\ pc' = [pc EXCEPT ![w] = "deliver"]
    /\ UNCHANGED <<scene, canvas, x, y, ray, castResult, shadowCastResult,
                   delivered, probe>>

\* Lines 166-170 and the x++ of line 160.
DeliverPixel ==
    /\ pc[0] = "deliver"
    /\ delivered' = Append(delivered, Pixel(x[0], y[0], color[0]))
    /\ x' = [x EXCEPT ![0] = x[0] + 1]
    /\ pc' = [pc EXCEPT ![0] = "loop"]
    /\ UNCHANGED <<scene, canvas, y, shading, probe>>

Next ==
    \/ RenderBegin
    \/ NextPixel
    \/ NextRow
    \/ RenderEnd
    \/ ShadePrimary(0)
    \/ ShadeShadow(0)
    \/ ShadeBoost(0)
    \/ DeliverPixel

Spec == Init /\ [][Next]_vars

\* ------------------------------------------------------------------------
\* The pixels evaluated in any order, by several evaluators at once
\* ------------------------------------------------------------------------

Workers == 0..(NumWorkers - 1)

InitAnyOrder ==
    /\ InitScene
    /\ width \in 1..2
    /\ height \in 1..2
    /\ InitEvaluators(Workers, "idle")
    /\ delivered = <<>>

\* Pixel (px, py) is delivered, or some evaluator is working on it.
Taken(px, py) ==
    \/ \E k \in 1..Len(delivered) : delivered[k].x = px /\ delivered[k].y = py
    \/ \E v \in DOMAIN pc : pc[v] # "idle" /\ x[v] = px /\ y[v] = py

\* Lines 161-164 for any pixel of the grid nobody has taken.
PickPixel(w) ==
    /\ pc[w] = "idle"
    /\ \E px \in 0..(width - 1), py \in 0..(height - 1) :
          /\ ~Taken(px, py)
          /\ x' = [x EXCEPT ![w] = px]
          /\ y' = [y EXCEPT ![w] = py]
          /\ ray' = [ray EXCEPT ![w] = CameraRay(px, py, width, height)]
    /\ pc' = [pc EXCEPT ![w] = "rayColor"]
    /\ UNCHANGED <<scene, canvas, castResult, shadowCastResult, color,
                   delivered, probe>>

\* Lines 166-170 for the pixel of evaluator w.
DeliverAny(w) ==
    /\ pc[w] = "deliver"
    /\ delivered' = Append(delivered, Pixel(x[w], y[w], color[w]))
    /\ pc' = [pc EXCEPT ![w] = "idle"]
    /\ UNCHANGED <<scene, canvas, x, y, shading, probe>>

NextAnyOrder ==
    \E w \in Workers :
        \/ PickPixel(w)
        \/ ShadePrimary(w)
        \/ ShadeShadow(w)
        \/ ShadeBoost(w)
        \/ DeliverAny(w)

SpecAnyOrder == InitAnyOrder /\ [][NextAnyOrder]_vars

\* ------------------------------------------------------------------------
\* traceRay and rayIntersects on their own, for bounded scenes and rays
\* ------------------------------------------------------------------------

White == Vec3(Num(1), Num(1), Num(1))

\* A direction whose computed dot(direction, direction) is 1 and that is not
\* along an axis.
Diagonal == normalised(Vec3(0, Num(1), Num(-1)))

ProbeSpheres ==
    { Sphere(Vec3(0, 0, Num(-3)), Num(1), White),
      Sphere(Vec3(0, 0, Num(-4)), Num(2), White),
      Sphere(Vec3(0, 0, Num(-1)), Num(2), White),
      Sphere(Vec3(0, 0, Fix(-1, 2)), Num(1), White),
      Sphere(Vec3(Num(1), 0, Num(-3)), Num(1), White),
      Sphere(Vec3(0, 0, Num(3)), Num(1), White),
      Sphere(Vec3(0, 0, Num(-1)), Num(1), White),
      Sphere(Vec3(0, 0, Num(-2)), Fix(3, 10), White),
      Sphere(pointAt(Ray(Vec3(0, 0, 0), Diagonal), Num(3)), Num(1), White) }

ProbeRays ==
    { Ray(o, d) :
        o \in { Vec3(0, 0, 0), Vec3(0, 0, Num(-7)) },
        d \in { Vec3(0, 0, Num(-1)), Vec3(0, 0, Num(1)), Vec3(0, 0, Num(-2)),
                Vec3(0, Num(1), Num(-1)), Diagonal } }

ProbeScenes ==
    UNION { [0..(n - 1) -> ProbeSpheres] : n \in 0..MaxSpheres }

InitGeom ==
    /\ spheres \in ProbeScenes
    /\ lightDirection = SceneLightDirection
    /\ negLightDirection = SceneNegLightDirection
    /\ width = 0
    /\ height = 0
    /\ pc = [w \in {0} |-> "input"]
    /\ x = [w \in {0} |-> 0]
    /\ y = [w \in {0} |-> 0]
    /\ ray \in [{0} -> ProbeRays]
    /\ castResult = [w \in {0} |-> none]
    /\ shadowCastResult = [w \in {0} |-> none]
    /\ color = [w \in {0} |-> none]
    /\ delivered = <<>>
    /\ sphereArg = -1
    /\ tIntersection = none

\* traceRay(ray)
CallTraceRay ==
    /\ pc[0] = "input"
    /\ castResult' = [castResult EXCEPT ![0] = traceRay(ray[0], spheres)]
    /\ pc' = [pc EXCEPT ![0] = "traced"]
    /\ UNCHANGED <<scene, canvas, x, y, ray, shadowCastResult, color,
                   delivered, probe>>

\* spheres[i].rayIntersects(ray)
CallRayIntersects(i) ==
    /\ pc[0] = "input"
    /\ sphereArg' = i
    /\ tIntersection' = rayIntersects(spheres[i], ray[0])
    /\ pc' = [pc EXCEPT ![0] = "intersected"]
    /\ UNCHANGED <<scene, canvas, x, y, shading, delivered>>

NextGeom ==
    \/ CallTraceRay
    \/ \E i \in DOMAIN spheres : CallRayIntersects(i)

SpecGeom == InitGeom /\ [][NextGeom]_vars

\* ------------------------------------------------------------------------
\* Properties of traceRay and rayIntersects (SpecGeom)
\* ------------------------------------------------------------------------

\* The indices of the spheres whose rayIntersects value for r is > 0.
PositiveHits(r, sc) == { i \in DOMAIN sc : rayIntersects(sc[i], r) > 0 }

\* C1: when some sphere's rayIntersects value is > 0, traceRay returns the
\* sphere with the smallest positive value, with that value as t, and among
\* the spheres that share the smallest value the one of lowest index.
C1_NearestHitFirstWins ==
    pc[0] = "traced" =>
        LET hits == PositiveHits(ray[0], spheres)
            got == castResult[0]
        IN  hits # {} =>
              /\ "sphereIndex" \in DOMAIN got
              /\ got.sphereIndex \in hits
              /\ got.t = rayIntersects(spheres[got.sphereIndex], ray[0])
              /\ \A j \in hits :
                    /\ got.t <= rayIntersects(spheres[j], ray[0])
                    /\ got.t = rayIntersects(spheres[j], ray[0])
                          => got.sphereIndex <= j

\* Two spheres share the smallest positive value and the earlier one is
\* returned.
C1_Witness ==
    /\ pc[0] = "traced"
    /\ "sphereIndex" \in DOMAIN castResult[0]
    /\ \E j \in PositiveHits(ray[0], spheres) :
          /\ j > castResult[0].sphereIndex
          /\ spheres[j] # spheres[castResult[0].sphereIndex]
          /\ rayIntersects(spheres[j], ray[0]) = castResult[0].t

\* C2: traceRay returns the miss record {t: -1} exactly when no sphere has a
\* rayIntersects value > 0; any other result has t > 0, a sphereIndex in
\* 0..spheres.length-1 and a normal that is not null; so exactly one of
\* rayColor's tests t < 0 and t > 0 passes on every result.
C2_MissOrWellFormedHit ==
    pc[0] = "traced" =>
        LET hits == PositiveHits(ray[0], spheres)
            got == castResult[0]
        IN  /\ (got = [t |-> -One]) <=> (hits = {})
            /\ got # [t |-> -One] =>
                  /\ DOMAIN got = {"t", "sphereIndex", "normal"}
                  /\ got.t > 0
                  /\ got.sphereIndex \in 0..(Length(spheres) - 1)
                  /\ got.normal # null
                  /\ DOMAIN got.normal = {"x", "y", "z"}
            /\ (got.t < 0) # (got.t > 0)

\* A miss on a scene in which a sphere is met at distance 0.
C2_Witness ==
    /\ pc[0] = "traced"
    /\ castResult[0] = [t |-> -One]
    /\ \E i \in DOMAIN spheres : rayIntersects(spheres[i], ray[0]) = 0

\* C3: rayIntersects returns -1 when the discriminant is <= 0, the tangent
\* case included, and the smaller root (-b - sqrt(D)) / (2a) when it is > 0,
\* also when that root is negative.
C3_SmallerRootOrSentinel ==
    pc[0] = "intersected" =>
        LET sphere == spheres[sphereArg]
            a == QuadA(sphere, ray[0])
            b == QuadB(sphere, ray[0])
            D == Discriminant(sphere, ray[0])
        IN  IF D <= 0
            THEN tIntersection = -One
            ELSE tIntersection = Div(-b - Sqrt(D), Mul(Num(2), a))

\* A negative smaller root, other than the sentinel, is returned.
C3_Witness ==
    /\ pc[0] = "intersected"
    /\ Discriminant(spheres[sphereArg], ray[0]) > 0
    /\ tIntersection < 0
    /\ tIntersection # -One

\* Exact geometry of a ray and a sphere, in integers (no rounding).
ExactDot(u, v) == u.x * v.x + u.y * v.y + u.z * v.z

\* The ray points exactly at the centre: the direction is a positive
\* multiple of centre - origin.
AimedAtCentre(sphere, r) ==
    LET to == subtract(sphere.center, r.origin)
        d == r.direction
    IN  /\ to.y * d.z = to.z * d.y
        /\ to.z * d.x = to.x * d.z
        /\ to.x * d.y = to.y * d.x
        /\ ExactDot(to, d) > 0

\* The origin is outside the sphere.
OriginOutside(sphere, r) ==
    LET to == subtract(sphere.center, r.origin)
    IN  ExactDot(to, to) > sphere.radius * sphere.radius

\* The distance from the origin to the centre, to the nearest Number.
DistanceToCentre(sphere, r) ==
    LET to == subtract(sphere.center, r.origin)
        n == ExactDot(to, to)
        s == ISqrt(n, 0, 46341)
    IN  IF n - s * s > s THEN s + 1 ELSE s

\* No product or root of the computation is rounded: the squares of the
\* radius and of the distance are Numbers, and the distance is one too.
NothingRounded(sphere, r) ==
    LET to == subtract(sphere.center, r.origin)
        dist == DistanceToCentre(sphere, r)
    IN  /\ dist * dist = ExactDot(to, to)
        /\ (dist * dist) % One = 0
        /\ (sphere.radius * sphere.radius) % One = 0
        /\ ExactDot(r.direction, r.direction) = One * One
        /\ (to.x * r.direction.x) % One = 0
        /\ (to.y * r.direction.y) % One = 0
        /\ (to.z * r.direction.z) % One = 0

\* The case of C8: rayIntersects was called with a ray of unit direction
\* aimed at the centre of the sphere from outside it.
C8_Case ==
    /\ pc[0] = "intersected"
    /\ AimedAtCentre(spheres[sphereArg], ray[0])
    /\ OriginOutside(spheres[sphereArg], ray[0])
    /\ QuadA(spheres[sphereArg], ray[0]) = One

ContainsOrigin(sphere, r) ==
    LET to == subtract(sphere.center, r.origin)
    IN  ExactDot(to, to) < sphere.radius * sphere.radius

\* The centre of the sphere is not ahead of the origin and the origin is not
\* inside: every sphere that lies entirely behind the origin is such a one.
BehindOrigin(sphere, r) ==
    /\ ExactDot(subtract(sphere.center, r.origin), r.direction) <= 0
    /\ ~ContainsOrigin(sphere, r)

\* C10: a sphere that contains the ray origin, or that lies behind it, has a
\* rayIntersects value <= 0 and is never the sphere traceRay reports.
C10_InsideOrBehindNeverReported ==
    pc[0] = "traced" =>
        \A i \in DOMAIN spheres :
            (ContainsOrigin(spheres[i], ray[0]) \/ BehindOrigin(spheres[i], ray[0]))
                => /\ rayIntersects(spheres[i], ray[0]) <= 0
                   /\ "sphereIndex" \in DOMAIN castResult[0]
                          => castResult[0].sphereIndex # i

\* The only sphere of the scene contains the origin, the ray leaves it in
\* front of the origin, and traceRay reports a miss.
C10_Witness ==
    /\ pc[0] = "traced"
    /\ Length(spheres) = 1
    /\ ContainsOrigin(spheres[0], ray[0])
    /\ rayIntersectsFarRoot(spheres[0], ray[0]) > 0
    /\ castResult[0] = [t |-> -One]

\* ------------------------------------------------------------------------
\* Properties of render and rayColor (Spec, SpecAnyOrder)
\* ------------------------------------------------------------------------

IsByte(n) == n % One = 0 /\ 0 <= n /\ n <= Num(255)

\* C4: every channel of every pixel given to the display surface is an
\* integer in [0,255].
C4_ChannelsAreBytes ==
    \A k \in 1..Len(delivered) :
        /\ IsByte(delivered[k].r)
        /\ IsByte(delivered[k].g)
        /\ IsByte(delivered[k].b)

\* The steps render still has to take: a bound on them that every step
\* lowers.
Rank(at) ==
    CASE at = "start" -> 6
      [] at = "loop" -> 5
      [] at = "rayColor" -> 4
      [] at = "shadow" -> 3
      [] at = "boost" -> 2
      [] at = "deliver" -> 1
      [] OTHER -> 0

StepsLeft ==
    6 * (Max(width, 0) * Max(height, 0) - Len(delivered))
        + (Max(height, 0) - y[0]) + Rank(pc[0])

\* The deliveries so far are the first pixels of the grid in row-major order.
RowMajorSoFar ==
    (width > 0 /\ height > 0) =>
        /\ Len(delivered) <= width * height
        /\ \A k \in 1..Len(delivered) :
              /\ delivered[k].x = (k - 1) % width
              /\ delivered[k].y = (k - 1) \div width
        /\ pc[0] = "done" => Len(delivered) = width * height

\* C5: for positive width and height the k-th pixel delivered is pixel
\* ((k-1) mod W, (k-1) div W) of the grid, so each pixel of [0,W)x[0,H) is
\* delivered once, none outside it, in row-major order; every step of render
\* lowers the number of steps left, so render ends, and at its end it has
\* delivered exactly W*H pixels.
C5_RowMajorExactlyOnce ==
    /\ [](RowMajorSoFar /\ StepsLeft >= 0)
    /\ [][(width > 0 /\ height > 0) => StepsLeft' < StepsLeft]_vars

\* render has returned from a frame of several rows and several columns.
C5_Witness ==
    /\ pc[0] = "done"
    /\ width > 1
    /\ height > 1
    /\ Len(delivered) = width * height

\* No pixel iteration has begun.
NothingTraced ==
    (width <= 0 \/ height <= 0) =>
        /\ delivered = <<>>
        /\ pc[0] \in {"start", "loop", "done"}
        /\ ray[0] = none
        /\ castResult[0] = none
        /\ color[0] = none

\* C6: with width <= 0 or height <= 0 render builds no ray, traces nothing
\* and delivers nothing, and every step it takes lowers the number of steps
\* left, so it runs to its end.
C6_EmptyFrameOnMalformed ==
    /\ [](NothingTraced /\ StepsLeft >= 0)
    /\ [][(width <= 0 \/ height <= 0) => StepsLeft' < StepsLeft]_vars

\* render has returned from a canvas with rows and no columns.
C6_Witness ==
    /\ pc[0] = "done"
    /\ width <= 0
    /\ height > 0
    /\ y[0] = height
    /\ delivered = <<>>

\* C7: no evaluator ever writes the scene, and whatever the order and the
\* interleaving of the evaluations, the pixel delivered for (x, y) is the
\* one computed from x, y, the width, the height and the startup scene.
C7_StatelessPixels ==
    /\ spheres = SceneSpheres
    /\ lightDirection = SceneLightDirection
    /\ negLightDirection = SceneNegLightDirection
    /\ \A k \in 1..Len(delivered) :
          delivered[k] =
              Pixel(delivered[k].x, delivered[k].y,
                    rayColor(CameraRay(delivered[k].x, delivered[k].y, width, height),
                             SceneSpheres, SceneLightDirection,
                             SceneNegLightDirection))

\* A pixel of the last row was delivered first, and two evaluators are in
\* the middle of rayColor for two other pixels at once.
C7_Witness ==
    /\ height > 1
    /\ Len(delivered) >= 1
    /\ delivered[1].y = height - 1
    /\ \E w, v \in DOMAIN pc :
          /\ w # v
          /\ pc[w] \in {"shadow", "boost"}
          /\ pc[v] \in {"rayColor", "deliver"}

\* C9: on a miss rayColor returns the background color untouched; on a hit
\* it returns albedo*diffuse + albedo*specular (albedo*(diffuse+specular) up
\* to rounding), multiplied by 0.4 exactly when the shadow ray from the
\* biased hit point hits a sphere, and then by 1.2 exactly when the sphere
\* hit is sphere 2.
C9_ShadowThenBoost ==
    pc[0] = "deliver" =>
        LET r == ray[0]
            hit == castResult[0]
        IN  /\ hit = traceRay(r, spheres)
            /\ IF hit.t < 0
               THEN color[0] = backgroundColour(r)
               ELSE LET albedo == spheres[hit.sphereIndex].color
                        diffuse == diffuseLighting(hit.normal, negLightDirection)
                        view == normalised(subtract(r.origin, pointAt(r, hit.t)))
                        specular == specularLighting(hit.normal, view, lightDirection)
                        base == add(scale(albedo, diffuse), scale(albedo, specular))
                        joint == scale(albedo, diffuse + specular)
                        inShadow ==
                            traceRay(Ray(add(pointAt(r, hit.t),
                                             scale(hit.normal, Fix(1, 100))),
                                         negLightDirection), spheres).t > 0
                        dimmed == IF inShadow THEN scale(base, Fix(4, 10)) ELSE base
                        final == IF hit.sphereIndex = 2
                                 THEN scale(dimmed, Fix(12, 10))
                                 ELSE dimmed
                    IN  /\ color[0] = final
                        /\ Abs(base.x - joint.x) <= 1
                        /\ Abs(base.y - joint.y) <= 1
                        /\ Abs(base.z - joint.z) <= 1

\* A point of sphere 2 in shadow: both factors apply.
C9_Witness ==
    /\ pc[0] = "deliver"
    /\ castResult[0].t > 0
    /\ castResult[0].sphereIndex = 2
    /\ shadowCastResult[0].t > 0
    /\ color[0].y > 0

=============================================================================
